---------------------------- MODULE Spec2Model ----------------------------
(***************************************************************************)
(* The tool contract of app/mcp/base.py: parameter descriptors, tool       *)
(* metadata, the result envelope, the lazily initialised tool and its      *)
(* safe_execute protocol, run by cooperatively scheduled asyncio tasks.    *)
(*                                                                         *)
(* Python values are modelled as strings; None is the string "None".       *)
(* An Optional[List] is <<>> for None and <<list>> for a list.             *)
(* A dict is a function whose DOMAIN is the set of its keys.               *)
(* An asyncio task runs without interruption between two suspension        *)
(* points, so one action is the code between two awaits that may suspend.  *)
(***************************************************************************)
EXTENDS Naturals, Sequences, FiniteSets, TLC

VARIABLES
    tool,         \* the tool instance the calls are made on
    initialized,  \* its self._initialized
    calls,        \* the calls in progress, one per task
    hookOk,       \* how many runs of _initialize have ended without raising
    hookFailed,   \* whether some run of _initialize has raised
    _tools,       \* ToolRegistry._tools: name -> tool instance
    _categories,  \* ToolRegistry._categories: category -> list of names
    registered,   \* the tools passed to register so far, in call order
    ret,          \* what the last registry lookup returned
    pc,           \* how far the import of app.main has come
    agent_tools,  \* LangChainService.tools: the names of the wrapped tools
    registering,  \* the tool of a register call that has run up to line 161
    infos,        \* what the get_tool_info requests made on the tool returned
    response      \* the response to the last HTTP request, once it is sent

\* the registry, its callers and the start-up of the application
registryVars == <<_tools, _categories, registered, ret, pc, agent_tools, registering>>

vars == <<tool, initialized, calls, hookOk, hookFailed, registryVars, infos, response>>

-----------------------------------------------------------------------------
(* Bounds *)

\* concurrent callers of one tool instance
NCalls == 2

\* longest declared parameter list of a generic tool
MaxParams == 2

\* calls of register besides those the start-up makes
MaxRegs == 2

-----------------------------------------------------------------------------
(* Values *)

NoneV == "None"

\* argument values a caller supplies ("w" is a member of the enum used below, "x" is not)
Values == {"w", "x"}

NoneList == <<>>

SomeList(l) == <<l>>

\* Python truthiness of an Optional[List]: None and [] are falsy
Truthy(optlist) == optlist # NoneList /\ Len(optlist[1]) > 0

\* Python's `value in list`
InList(v, l) == \E i \in 1..Len(l) : l[i] = v

EmptyDict == [k \in {} |-> NoneV]

\* dict.get(key): None when the key is absent
DictGet(d, k) == IF k \in DOMAIN d THEN d[k] ELSE NoneV

\* d[key] = value
DictSet(d, k, v) == [x \in (DOMAIN d) \cup {k} |-> IF x = k THEN v ELSE d[x]]

-----------------------------------------------------------------------------
(* ToolParameter, ToolMetadata, ToolResult *)

ToolParameter(name, type, description, required, default, enum) ==
    [name |-> name, type |-> type, description |-> description,
     required |-> required, default |-> default, enum |-> enum]

ToolResult(success, result, error, execution_time) ==
    [success |-> success, result |-> result, error |-> error,
     execution_time |-> execution_time]

\* error texts: the kind of message and the parameter name formatted into it
NoError == [kind |-> "None", param |-> ""]

\* "工具初始化失败"
InitFailedError == [kind |-> "init_failed", param |-> ""]

\* f"缺少必需参数: {param.name}"
MissingError(name) == [kind |-> "missing", param |-> name]

\* f"参数 {param.name} 值必须在 {param.enum} 中"
EnumError(name) == [kind |-> "enum", param |-> name]

\* str(e) of an exception raised by a tool's _initialize
HookError == [kind |-> "hook_exception", param |-> ""]

\* str(e) of an exception raised by a tool's execute
ExecError == [kind |-> "exception", param |-> ""]

\* the error text of a failure envelope a tool's execute returns itself
ToolError == [kind |-> "tool", param |-> ""]


\* version and author are carried by the metadata and only echoed in responses
ToolMetadata(name, description, parameters, category, tags) ==
    [name |-> name, description |-> description, parameters |-> parameters,
     category |-> category, tags |-> tags]

-----------------------------------------------------------------------------
(* The tools.  hook is the tool's _initialize: "base" is MCPTool's own      *)
(* (pass), "config" is a check of settings that raises when a key is unset  *)
(* and never awaits, "override" is any other subclass's coroutine, which    *)
(* may await and may raise.  Description texts and tags are abbreviated.    *)

GoogleSearchTool ==
    [cls |-> "GoogleSearchTool", hook |-> "config",
     metadata |-> ToolMetadata("google_search", "google search",
        << ToolParameter("query", "string", "search keywords", TRUE, NoneV, NoneList),
           ToolParameter("num_results", "integer", "number of results",
                         FALSE, "5", NoneList),
           ToolParameter("lang", "string", "search language",
                         FALSE, "zh-CN", NoneList) >>,
        "web", <<"search", "web", "information">>)]

BingSearchTool ==
    [cls |-> "BingSearchTool", hook |-> "config",
     metadata |-> ToolMetadata("bing_search", "bing search",
        << ToolParameter("query", "string", "search keywords", TRUE, NoneV, NoneList),
           ToolParameter("count", "integer", "number of results",
                         FALSE, "5", NoneList),
           ToolParameter("market", "string", "market region",
                         FALSE, "zh-CN", NoneList) >>,
        "web", <<"search", "web", "information">>)]

FileReadTool ==
    [cls |-> "FileReadTool", hook |-> "base",
     metadata |-> ToolMetadata("file_read", "read a file",
        << ToolParameter("file_path", "string", "path of the file",
                         TRUE, NoneV, NoneList),
           ToolParameter("encoding", "string", "file encoding",
                         FALSE, "utf-8", NoneList) >>,
        "file", <<"file", "read", "I/O">>)]

FileWriteTool ==
    [cls |-> "FileWriteTool", hook |-> "base",
     metadata |-> ToolMetadata("file_write", "write a file",
        << ToolParameter("file_path", "string", "path of the file",
                         TRUE, NoneV, NoneList),
           ToolParameter("content", "string", "content to write",
                         TRUE, NoneV, NoneList),
           ToolParameter("encoding", "string", "file encoding",
                         FALSE, "utf-8", NoneList),
           ToolParameter("mode", "string", "write mode",
                         FALSE, "w", SomeList(<<"w", "a">>)) >>,
        "file", <<"file", "write", "I/O">>)]

CSVAnalysisTool ==
    [cls |-> "CSVAnalysisTool", hook |-> "base",
     metadata |-> ToolMetadata("csv_analysis", "analyse a csv file",
        << ToolParameter("file_path", "string", "path of the csv file",
                         TRUE, NoneV, NoneList),
           ToolParameter("operation", "string", "kind of analysis", TRUE, NoneV,
                         SomeList(<<"describe", "head", "info", "columns", "shape">>)),
           ToolParameter("rows", "integer", "number of rows",
                         FALSE, "5", NoneList) >>,
        "data", <<"data", "CSV", "analysis">>)]

\* the tools register_all_tools instantiates
BuiltinTools ==
    {GoogleSearchTool, BingSearchTool, FileReadTool, FileWriteTool, CSVAnalysisTool}

\* every combination of the fields of a ToolParameter that validation reads
ParamShapes ==
    [required : BOOLEAN,
     default  : {NoneV, "w", "x"},
     enum     : {NoneList, SomeList(<<"w", "a">>)}]

ParamNames == <<"p1", "p2", "p3">>

\* any other MCPTool subclass: an arbitrary parameter list with distinct names
GenericTool(shapes) ==
    [cls |-> "GenericTool", hook |-> "override",
     metadata |-> ToolMetadata("generic", "a generic tool",
        [i \in 1..Len(shapes) |->
            ToolParameter(ParamNames[i], "string", "a parameter",
                          shapes[i].required, shapes[i].default, shapes[i].enum)],
        "general", <<>>)]

GenericTools ==
    {GenericTool(s) : s \in UNION {[1..n -> ParamShapes] : n \in 0..MaxParams}}

Tools == BuiltinTools \cup GenericTools

\* tools of one parameter whose enum is the empty list, which every test
\* of param.enum takes like None
EmptyEnumTools ==
    {GenericTool(<<shape>>) :
        shape \in [required : BOOLEAN, default : {NoneV, "w", "x"},
                   enum : {SomeList(<<>>)}]}

\* keyword arguments a caller may pass for the declared parameters:
\* each one omitted, passed as None, or passed with a value
KwargsOf(t) ==
    LET names == {t.metadata.parameters[i].name : i \in 1..Len(t.metadata.parameters)}
    IN  UNION {[S -> Values \cup {NoneV}] : S \in SUBSET names}

-----------------------------------------------------------------------------
(* MCPTool.validate_parameters *)

\* a variant that never reports a missing required parameter
MissingRequired_Never(param, value) == FALSE

\* a variant that lets a default stand in for a required argument
MissingRequired_UnlessDefault(param, value) ==
    param.required /\ value = NoneV /\ param.default = NoneV

\* if param.required and value is None
MissingRequired(param, value) == param.required /\ value = NoneV

\* a variant that never substitutes the default
ResolveValue_NoDefault(param, value) == value

\* a variant that substitutes the default for every falsy value
ResolveValue_DefaultIfFalsy(param, value) ==
    IF value \in {NoneV, "", "0"} /\ param.default # NoneV THEN param.default ELSE value

\* if value is None and param.default is not None: value = param.default
ResolveValue(param, value) ==
    IF value = NoneV /\ param.default # NoneV THEN param.default ELSE value

\* a variant that never checks the enum
EnumViolated_Never(param, value) == FALSE

\* if param.enum and value not in param.enum
EnumViolated(param, value) ==
    Truthy(param.enum) /\ ~InList(value, param.enum[1])

ValidationOk(validated) == [ok |-> TRUE, validated |-> validated, error |-> NoError]

\* raise ValueError(message)
ValidationRaise(error) == [ok |-> FALSE, validated |-> EmptyDict, error |-> error]

RECURSIVE ValidateFrom(_, _, _, _)
\* the for loop of validate_parameters from the i-th declared parameter on
ValidateFrom(params, kwargs, i, validated) ==
    IF i > Len(params) THEN ValidationOk(validated)
    ELSE LET param == params[i]
             value == DictGet(kwargs, param.name)
         IN  IF MissingRequired(param, value)
             THEN ValidationRaise(MissingError(param.name))
             ELSE LET resolved == ResolveValue(param, value)
                  IN  IF resolved # NoneV
                      THEN IF EnumViolated(param, resolved)
                           THEN ValidationRaise(EnumError(param.name))
                           ELSE ValidateFrom(params, kwargs, i + 1,
                                             DictSet(validated, param.name, resolved))
                      ELSE ValidateFrom(params, kwargs, i + 1, validated)

\* a variant whose loop runs over the declared parameters from the last one
validate_parameters_FromLast(t, kwargs) ==
    LET params == t.metadata.parameters
    IN  ValidateFrom([i \in 1..Len(params) |-> params[Len(params) + 1 - i]],
                     kwargs, 1, EmptyDict)

\* a variant that starts from the arguments as they came
validate_parameters_KeepsOthers(t, kwargs) ==
    ValidateFrom(t.metadata.parameters, kwargs, 1, kwargs)

validate_parameters(t, kwargs) ==
    ValidateFrom(t.metadata.parameters, kwargs, 1, EmptyDict)

-----------------------------------------------------------------------------
(* One call of initialize or safe_execute on the tool: its position, its   *)
(* arguments, what it has run so far and what it returned.                 *)

NoEnvelope == ToolResult(FALSE, NoneV, NoError, NoneV)

IdleCall ==
    [pc |-> "idle", op |-> "none", kwargs |-> EmptyDict, validated |-> EmptyDict,
     flagRead |-> NoneV, ranHook |-> FALSE, ranValidate |-> FALSE,
     ranExecute |-> FALSE, excWhere |-> "none", excError |-> NoError,
     initRet |-> NoneV, ret |-> NoEnvelope,
     executes |-> 0, executeArgs |-> EmptyDict]

\* datetime.now() - start_time, in seconds: a float, never None
Elapsed == "elapsed"

\* a variant that runs the setup hook on every call
NeedsHook_Always(flag) == TRUE

\* if not self._initialized
NeedsHook(flag) == ~flag

\* how a tool's _initialize can end: it returns, or raises an Exception
\* (cancellation of the task is the caller's affair and is not modelled)
HookOutcomes(t) == IF t.hook = "base" THEN {"ok"} ELSE {"ok", "raise"}

\* whether awaiting a tool's _initialize can suspend the calling task
HookMaySuspend(t) == t.hook = "override"

\* how a tool's execute can end: it returns a success envelope, returns a
\* failure envelope, or raises an Exception; the built-in tools catch every
\* exception themselves and return an envelope
ExecOutcomes(t) == IF t.cls = "GenericTool" THEN {"ok", "fail", "raise"} ELSE {"ok", "fail"}

\* a variant that sets the flag before the hook has succeeded
FlagAfterHook_SetEvenOnFailure(flag, outcome) == TRUE

\* a variant that clears the flag when a run of the hook raises
FlagAfterHook_ClearedOnFailure(flag, outcome) == outcome = "ok"

\* self._initialized after the try block of initialize
FlagAfterHook(flag, outcome) == IF outcome = "ok" THEN TRUE ELSE flag

\* the value initialize returns after the try block
InitializeResult(outcome) == outcome = "ok"

PyBool(b) == IF b THEN "True" ELSE "False"

\* an exception with message `error` is raised inside `where`
Raise(call, where, error) == [call EXCEPT !.excWhere = where, !.excError = error]

\* a variant without the except clause: the exception reaches the caller
ExceptReturn_Escapes(call) == [call EXCEPT !.pc = "raised"]

\* except Exception as e: the failure envelope of safe_execute, error=str(e)
ExceptReturn(call) ==
    [call EXCEPT !.pc = "returned",
                 !.ret = ToolResult(FALSE, NoneV, call.excError, Elapsed)]

\* a variant whose failure envelope carries no error text
InitFailedReturn_NoError(call) ==
    [call EXCEPT !.pc = "returned",
                 !.ret = ToolResult(FALSE, NoneV, NoError, NoneV)]

\* if not await self.initialize(): return ToolResult(success=False, error=...)
InitFailedReturn(call) ==
    [call EXCEPT !.pc = "returned",
                 !.ret = ToolResult(FALSE, NoneV, InitFailedError, NoneV)]

\* a variant that passes the caller's arguments on as they came
ExecuteArgs_Raw(validated_params, kwargs) == kwargs

\* await self.execute(**validated_params)
ExecuteArgs(validated_params, kwargs) == validated_params

\* validated_params = self.validate_parameters(**kwargs), then the call of execute
ValidateThenExecute(t, call) ==
    LET v == validate_parameters(t, call.kwargs)
    IN  IF v.ok
        THEN [call EXCEPT !.pc = "in_execute", !.ranValidate = TRUE,
                          !.validated = v.validated, !.ranExecute = TRUE,
                          !.executes = call.executes + 1,
                          !.executeArgs = ExecuteArgs(v.validated, call.kwargs)]
        ELSE ExceptReturn(Raise([call EXCEPT !.ranValidate = TRUE],
                                "validate_parameters", v.error))

\* a variant of safe_execute that does not test what initialize returned
AfterInitialize_IgnoresResult(t, call, b) ==
    LET c2 == [call EXCEPT !.initRet = PyBool(b)]
    IN  IF call.op = "initialize" THEN [c2 EXCEPT !.pc = "returned"]
        ELSE ValidateThenExecute(t, c2)

\* the caller's code after initialize returned b
AfterInitialize(t, call, b) ==
    LET c2 == [call EXCEPT !.initRet = PyBool(b)]
    IN  IF call.op = "initialize" THEN [c2 EXCEPT !.pc = "returned"]
        ELSE IF b THEN ValidateThenExecute(t, c2)
        ELSE InitFailedReturn(c2)

\* result.execution_time = execution_time
Stamp(envelope) == [envelope EXCEPT !.execution_time = Elapsed]

\* a variant in which an exception of execute reaches the caller
AfterExecute_Escapes(call, outcome) ==
    IF outcome = "raise" THEN [Raise(call, "execute", ExecError) EXCEPT !.pc = "raised"]
    ELSE [call EXCEPT !.pc = "returned",
             !.ret = Stamp(IF outcome = "ok"
                           THEN ToolResult(TRUE, "payload", NoError, NoneV)
                           ELSE ToolResult(FALSE, NoneV, ToolError, NoneV))]

\* the end of the awaited execute and the rest of safe_execute
AfterExecute(call, outcome) ==
    IF outcome = "raise" THEN ExceptReturn(Raise(call, "execute", ExecError))
    ELSE [call EXCEPT !.pc = "returned",
             !.ret = Stamp(IF outcome = "ok"
                           THEN ToolResult(TRUE, "payload", NoError, NoneV)
                           ELSE ToolResult(FALSE, NoneV, ToolError, NoneV))]

-----------------------------------------------------------------------------
(* Actions *)

\* the end of _initialize inside initialize, and what follows without suspending
HookEnd(c, call, outcome) ==
    /\ initialized' = FlagAfterHook(initialized, outcome)
    /\ hookOk' = IF outcome = "ok" THEN hookOk + 1 ELSE hookOk
    /\ hookFailed' = (hookFailed \/ outcome = "raise")
    /\ calls' = [calls EXCEPT ![c] =
          AfterInitialize(tool,
                          IF outcome = "raise"
                          THEN Raise(call, "_initialize", HookError) ELSE call,
                          InitializeResult(outcome))]

\* a call enters initialize
EnterInitialize(c, call) ==
    LET entered == [call EXCEPT !.flagRead = PyBool(initialized)]
    IN  IF NeedsHook(initialized)
        THEN \/ /\ HookMaySuspend(tool)
                /\ calls' = [calls EXCEPT ![c] =
                                [entered EXCEPT !.pc = "in_hook", !.ranHook = TRUE]]
                /\ UNCHANGED <<initialized, hookOk, hookFailed>>
             \/ \E o \in HookOutcomes(tool) :
                   HookEnd(c, [entered EXCEPT !.ranHook = TRUE], o)
        ELSE /\ calls' = [calls EXCEPT ![c] = AfterInitialize(tool, entered, TRUE)]
             /\ UNCHANGED <<initialized, hookOk, hookFailed>>

\* a task calls tool.safe_execute(**kwargs)
SafeExecute(c) ==
    /\ calls[c].pc = "idle"
    /\ \E kw \in KwargsOf(tool) :
          EnterInitialize(c, [IdleCall EXCEPT !.op = "safe_execute", !.kwargs = kw])
    /\ UNCHANGED <<tool, registryVars, infos, response>>

\* a task calls tool.initialize() itself
Initialize(c) ==
    /\ calls[c].pc = "idle"
    /\ EnterInitialize(c, [IdleCall EXCEPT !.op = "initialize"])
    /\ UNCHANGED <<tool, registryVars, infos, response>>

\* a suspended _initialize ends and its task runs on
HookResume(c) ==
    /\ calls[c].pc = "in_hook"
    /\ \E o \in HookOutcomes(tool) : HookEnd(c, calls[c], o)
    /\ UNCHANGED <<tool, registryVars, infos, response>>

\* the awaited execute ends and safe_execute returns
ExecuteReturn(c) ==
    /\ calls[c].pc = "in_execute"
    /\ \E o \in ExecOutcomes(tool) :
          calls' = [calls EXCEPT ![c] = AfterExecute(calls[c], o)]
    /\ UNCHANGED <<tool, initialized, hookOk, hookFailed, registryVars, infos, response>>

\* the caller has taken the returned value; the task is free for another call
Return(c) ==
    /\ calls[c].pc = "returned"
    /\ calls' = [calls EXCEPT ![c] = IdleCall]
    /\ UNCHANGED <<tool, initialized, hookOk, hookFailed, registryVars, infos, response>>

-----------------------------------------------------------------------------
(* MCPTool.metadata and MCPTool.to_langchain_tool_schema.  self is the tool *)
(* instance: its class, its metadata literal and, once it is invoked, its   *)
(* _initialized flag.                                                       *)

\* the instance as its methods see it
Self(t, flag) ==
    [cls |-> t.cls, hook |-> t.hook, metadata |-> t.metadata, _initialized |-> flag]

\* a variant whose metadata reads the state of the instance
metadata_ByState(self) ==
    IF self._initialized THEN [self.metadata EXCEPT !.category = "ready"]
    ELSE self.metadata

\* the metadata property of a tool class: a ToolMetadata built from literals
metadata(self) == self.metadata

\* a variant that tests the truth value of the default
PropertyKeys_DefaultIfTruthy(param) ==
    {"type", "description"}
        \cup (IF Truthy(param.enum) THEN {"enum"} ELSE {})
        \cup (IF param.default \notin {NoneV, "", "0"} THEN {"default"} ELSE {})

\* the keys of one entry of "properties"
PropertyKeys(param) ==
    {"type", "description"}
        \cup (IF Truthy(param.enum) THEN {"enum"} ELSE {})
        \cup (IF param.default # NoneV THEN {"default"} ELSE {})

\* {"type": ..., "description": ..., **enum, **default}
Property(param) ==
    [k \in PropertyKeys(param) |->
        CASE k = "type" -> param.type
          [] k = "description" -> param.description
          [] k = "enum" -> param.enum[1]
          [] k = "default" -> param.default]

\* {param.name: {...} for param in parameters}: a later parameter of the
\* same name replaces an earlier one
Properties(parameters) ==
    [n \in {parameters[i].name : i \in 1..Len(parameters)} |->
        Property(parameters[CHOOSE i \in 1..Len(parameters) :
                    /\ parameters[i].name = n
                    /\ \A j \in 1..Len(parameters) : parameters[j].name = n => j <= i])]

\* a variant that lists every parameter as required
RequiredNames_All(parameters) ==
    [i \in 1..Len(parameters) |-> parameters[i].name]

\* [param.name for param in parameters if param.required]
RequiredNames(parameters) ==
    LET req == SelectSeq(parameters, LAMBDA param : param.required)
    IN  [i \in 1..Len(req) |-> req[i].name]

\* a variant that exports no parameters for a tool that is not initialized
to_langchain_tool_schema_WhenInitialized(self) ==
    [name |-> metadata(self).name,
     description |-> metadata(self).description,
     parameters |->
        [type |-> "object",
         properties |-> IF self._initialized
                        THEN Properties(metadata(self).parameters)
                        ELSE Properties(<<>>),
         required |-> RequiredNames(metadata(self).parameters)]]

\* MCPTool.to_langchain_tool_schema
to_langchain_tool_schema(self) ==
    [name |-> metadata(self).name,
     description |-> metadata(self).description,
     parameters |->
        [type |-> "object",
         properties |-> Properties(metadata(self).parameters),
         required |-> RequiredNames(metadata(self).parameters)]]

-----------------------------------------------------------------------------
(* ToolRegistry.  _tools is a Python dict, which keeps its keys in the order *)
(* of their first insertion: keys is that order, vals the mapping.          *)
(* _categories is only ever read by key.  An Optional[MCPTool] is <<>> for  *)
(* None and <<tool>> for a tool.                                            *)

NoneTool == <<>>

SomeTool(t) == <<t>>

\* ToolRegistry.__init__
EmptyTools == [keys |-> <<>>, vals |-> EmptyDict]

\* a variant that keeps the instance registered first under a name
StoreTool_KeepsFirst(tools, t) ==
    IF t.metadata.name \in DOMAIN tools.vals THEN tools
    ELSE [keys |-> Append(tools.keys, t.metadata.name),
          vals |-> DictSet(tools.vals, t.metadata.name, t)]

\* self._tools[tool_name] = tool
StoreTool(tools, t) ==
    [keys |-> IF t.metadata.name \in DOMAIN tools.vals
              THEN tools.keys ELSE Append(tools.keys, t.metadata.name),
     vals |-> DictSet(tools.vals, t.metadata.name, t)]

\* if tool_category not in self._categories: self._categories[tool_category] = []
EnsureCategory(categories, category) ==
    IF category \in DOMAIN categories THEN categories
    ELSE DictSet(categories, category, <<>>)

\* a variant that appends without looking
AppendName_Always(names, name) == Append(names, name)

\* a variant that moves a name registered again to the end of the list
AppendName_MovesToEnd(names, name) ==
    Append(SelectSeq(names, LAMBDA n : n # name), name)

\* if tool_name not in self._categories[tool_category]: ....append(tool_name)
AppendName(names, name) ==
    IF InList(name, names) THEN names ELSE Append(names, name)

\* lines 163-167 of register: the category index after them
IndexTool(categories, t) ==
    LET tool_name == t.metadata.name
        tool_category == t.metadata.category
        ensured == EnsureCategory(categories, tool_category)
    IN  DictSet(ensured, tool_category, AppendName(ensured[tool_category], tool_name))

\* ToolRegistry.register: the registry after the call
register(tools, categories, t) ==
    [tools |-> StoreTool(tools, t), categories |-> IndexTool(categories, t)]

\* a variant in which the event loop may run another task at any statement
TaskSwitch_Anywhere(inside) == TRUE

\* whether the event loop can run another task now: register is a plain
\* function without await, so no task runs while a call is inside it
TaskSwitch(inside) == inside = NoneTool

\* a variant that returns the first registered tool for an unknown name
get_tool_Fallback(tools, name) ==
    IF name \in DOMAIN tools.vals THEN SomeTool(tools.vals[name])
    ELSE IF Len(tools.keys) > 0 THEN SomeTool(tools.vals[tools.keys[1]])
    ELSE NoneTool

\* ToolRegistry.get_tool
get_tool(tools, name) ==
    IF name \in DOMAIN tools.vals THEN SomeTool(tools.vals[name]) ELSE NoneTool

\* self._categories.get(category, [])
CategoryNames(categories, category) ==
    IF category \in DOMAIN categories THEN categories[category] ELSE <<>>

\* what a registry call hands back: a value, or the exception it raised
Returned(value) == [raised |-> "None", value |-> value]

Raised(exception) == [raised |-> exception, value |-> <<>>]

\* ToolRegistry.get_tools_by_category: self._tools[name] raises KeyError
\* for a name that is not a key
get_tools_by_category(tools, categories, category) ==
    LET tool_names == CategoryNames(categories, category)
    IN  IF \E i \in 1..Len(tool_names) : tool_names[i] \notin DOMAIN tools.vals
        THEN Raised("KeyError")
        ELSE Returned([i \in 1..Len(tool_names) |-> tools.vals[tool_names[i]]])

\* ToolRegistry.list_all_tools
list_all_tools(tools) == tools.keys

\* an MCPTool subclass of another package, free to pick its name and category
NamedTool(name, category) ==
    [cls |-> "NamedTool", hook |-> "override",
     metadata |-> ToolMetadata(name, "a tool of another package", <<>>, category, <<>>)]

\* the instances callers of register pass in: new instances of the built-in
\* classes, and tools that reuse a built-in name or category
RegistryTools ==
    BuiltinTools \cup
    {NamedTool(n, c) : n \in {"file_read", "plugin"}, c \in {"file", "general"}}

\* the names and categories lookups are made with
LookupNames == {t.metadata.name : t \in RegistryTools} \cup {"unknown"}

LookupCategories == {t.metadata.category : t \in RegistryTools} \cup {"unknown"}

\* tools_to_register of register_all_tools
tools_to_register ==
    <<GoogleSearchTool, BingSearchTool, FileReadTool, FileWriteTool, CSVAnalysisTool>>

\* the loop of register_all_tools from its i-th tool on
RECURSIVE RegisterFrom(_, _, _)
RegisterFrom(tools, categories, i) ==
    IF i > Len(tools_to_register) THEN [tools |-> tools, categories |-> categories]
    ELSE LET r == register(tools, categories, tools_to_register[i])
         IN  RegisterFrom(r.tools, r.categories, i + 1)

\* LangChainService._create_langchain_tools: one wrapper, named by its
\* schema's name, for each listed name that get_tool finds
RECURSIVE WrapFrom(_, _, _)
WrapFrom(tools, names, i) ==
    IF i > Len(names) THEN <<>>
    ELSE LET mcp_tool == get_tool(tools, names[i])
         IN  (IF mcp_tool # NoneTool
              THEN <<to_langchain_tool_schema(Self(mcp_tool[1], FALSE)).name>>
              ELSE <<>>)
             \o WrapFrom(tools, names, i + 1)

_create_langchain_tools(tools) == WrapFrom(tools, list_all_tools(tools), 1)

\* the calls of register made besides those of register_all_tools
OtherRegistrations ==
    Len(registered) - (IF pc = "serving" THEN Len(tools_to_register) ELSE 0)

\* some code calls tool_registry.register(t)
Register(t) ==
    /\ OtherRegistrations < MaxRegs
    /\ LET r == register(_tools, _categories, t)
       IN  /\ _tools' = r.tools
           /\ _categories' = r.categories
    /\ registered' = Append(registered, t)
    /\ UNCHANGED <<ret, pc, agent_tools, registering>>
    /\ UNCHANGED <<tool, initialized, calls, hookOk, hookFailed, infos, response>>

\* some code calls tool_registry.get_tool(name)
GetTool(name) ==
    /\ TaskSwitch(registering)
    /\ ret' = [op |-> "get_tool", arg |-> name,
               out |-> Returned(get_tool(_tools, name))]
    /\ UNCHANGED <<_tools, _categories, registered, pc, agent_tools, registering>>
    /\ UNCHANGED <<tool, initialized, calls, hookOk, hookFailed, infos, response>>

\* some code calls tool_registry.get_tools_by_category(category)
GetToolsByCategory(category) ==
    /\ TaskSwitch(registering)
    /\ ret' = [op |-> "get_tools_by_category", arg |-> category,
               out |-> get_tools_by_category(_tools, _categories, category)]
    /\ UNCHANGED <<_tools, _categories, registered, pc, agent_tools, registering>>
    /\ UNCHANGED <<tool, initialized, calls, hookOk, hookFailed, infos, response>>

\* some code calls tool_registry.list_all_tools()
ListAllTools ==
    /\ TaskSwitch(registering)
    /\ ret' = [op |-> "list_all_tools", arg |-> "",
               out |-> Returned(list_all_tools(_tools))]
    /\ UNCHANGED <<_tools, _categories, registered, pc, agent_tools, registering>>
    /\ UNCHANGED <<tool, initialized, calls, hookOk, hookFailed, infos, response>>

\* a call of register runs its line 161
RegisterStore(t) ==
    /\ registering = NoneTool
    /\ OtherRegistrations < MaxRegs
    /\ _tools' = StoreTool(_tools, t)
    /\ registered' = Append(registered, t)
    /\ registering' = SomeTool(t)
    /\ UNCHANGED <<_categories, ret, pc, agent_tools>>
    /\ UNCHANGED <<tool, initialized, calls, hookOk, hookFailed, infos, response>>

\* the call runs its lines 163-167 and returns
RegisterIndex ==
    /\ registering # NoneTool
    /\ _categories' = IndexTool(_categories, registering[1])
    /\ registering' = NoneTool
    /\ UNCHANGED <<_tools, registered, ret, pc, agent_tools>>
    /\ UNCHANGED <<tool, initialized, calls, hookOk, hookFailed, infos, response>>

\* main.py line 13: the import of the router imports app.api.v1.chat, which
\* imports app.services.langchain_service, whose last line builds the service
ImportRouter ==
    /\ pc = "main:13"
    /\ agent_tools' = _create_langchain_tools(_tools)
    /\ pc' = "main:15"
    /\ UNCHANGED <<_tools, _categories, registered, ret, registering>>
    /\ UNCHANGED <<tool, initialized, calls, hookOk, hookFailed, infos, response>>

\* main.py line 15: the import of app.mcp.tools runs register_all_tools
ImportTools ==
    /\ pc = "main:15"
    /\ LET r == RegisterFrom(_tools, _categories, 1)
       IN  /\ _tools' = r.tools
           /\ _categories' = r.categories
    /\ registered' = registered \o tools_to_register
    /\ pc' = "serving"
    /\ UNCHANGED <<ret, agent_tools, registering>>
    /\ UNCHANGED <<tool, initialized, calls, hookOk, hookFailed, infos, response>>

\* a GET /tools/{tool_name} request for the tool: get_tool_info reads its
\* metadata and exports its schema
GetToolInfo ==
    /\ infos' = infos \cup
          {[flag |-> initialized, failed |-> hookFailed,
            metadata |-> metadata(Self(tool, initialized)),
            schema |-> to_langchain_tool_schema(Self(tool, initialized))]}
    /\ UNCHANGED <<tool, initialized, calls, hookOk, hookFailed, registryVars, response>>

-----------------------------------------------------------------------------
(* The routes of app/api/v1/tools.py, below the prefix /api/v1.  A path is  *)
(* the sequence of its segments.  A response is its status, the handler     *)
(* that made it and its body.                                               *)

\* no request has been answered since the last one was received
NoResponse == [status |-> 0, handler |-> "None", body |-> <<>>]

\* raise HTTPException(status_code=status, detail=detail); of the detail of
\* a 404 the tool name is kept, of the detail of a 500 the kind of exception
HTTPException(handler, status, detail) ==
    [status |-> status, handler |-> handler, body |-> detail]

\* a handler returns a body
Ok(handler, body) == [status |-> 200, handler |-> handler, body |-> body]

\* the segments that match any one segment
PathParams == {"{tool_name}", "{category}"}

\* the route decorators, in the order of their declaration
Routes ==
    << [method |-> "GET",  path |-> <<"tools">>, handler |-> "list_tools"],
       [method |-> "GET",  path |-> <<"tools", "categories">>,
        handler |-> "list_tool_categories"],
       [method |-> "GET",  path |-> <<"tools", "{tool_name}">>,
        handler |-> "get_tool_info"],
       [method |-> "POST", path |-> <<"tools", "{tool_name}", "execute">>,
        handler |-> "execute_tool"],
       [method |-> "GET",  path |-> <<"tools", "category", "{category}">>,
        handler |-> "get_tools_by_category"],
       [method |-> "GET",  path |-> <<"tools", "search">>, handler |-> "search_tools"] >>

\* whether a route's path matches a request path
PathMatches(pattern, path) ==
    /\ Len(pattern) = Len(path)
    /\ \A i \in 1..Len(pattern) : pattern[i] \in PathParams \/ pattern[i] = path[i]

\* the router: the first route, in declaration order, that matches path and
\* method handles the request; a path matched only under another method is
\* answered 405, a path matched by no route 404
Dispatch(method, path) ==
    LET full == {i \in 1..Len(Routes) :
                    PathMatches(Routes[i].path, path) /\ Routes[i].method = method}
        partial == {i \in 1..Len(Routes) : PathMatches(Routes[i].path, path)}
    IN  IF full # {} THEN Routes[CHOOSE i \in full : \A j \in full : i <= j].handler
        ELSE IF partial # {} THEN "405" ELSE "404"

\* ToolRegistry.get_tools_metadata: the metadata of the tools, in key order
get_tools_metadata(tools) ==
    [i \in 1..Len(tools.keys) |-> metadata(tools.vals[tools.keys[i]])]

\* the truth value of an Optional[str]
StrTruthy(str) == str # NoneV /\ str # ""

\* the characters of the strings searches are made with and on
Chars(str) ==
    CASE str = "" -> <<>>
      [] str = "a" -> <<"a">>
      [] str = "B" -> <<"B">>
      [] str = "ab" -> <<"a", "b">>
      [] str = "a b" -> <<"a", " ", "b">>

\* str.lower()
Lower(chars) ==
    [i \in 1..Len(chars) |->
        CASE chars[i] = "A" -> "a" [] chars[i] = "B" -> "b" [] OTHER -> chars[i]]

\* sub in text
Contains(sub, text) ==
    /\ Len(sub) <= Len(text)
    /\ \E i \in 1..(Len(text) + 1 - Len(sub)) : SubSeq(text, i, i + Len(sub) - 1) = sub

\* search_text = f"{metadata.name} {metadata.description}".lower()
SearchText(m) == Lower(Chars(m.name) \o <<" ">> \o Chars(m.description))

\* whether the loop of search_tools reaches its append for a tool
Selected(m, q, category, tag) ==
    /\ ~(StrTruthy(category) /\ m.category # category)
    /\ ~(StrTruthy(tag) /\ ~InList(tag, m.tags))
    /\ ~(StrTruthy(q) /\ ~Contains(Lower(Chars(q)), SearchText(m)))

\* the entry of a tool in a listing
Listed(m) ==
    [name |-> m.name, description |-> m.description, category |-> m.category,
     tags |-> m.tags]

\* the handler search_tools
search_tools(tools, q, category, tag) ==
    LET all_tools == get_tools_metadata(tools)
        filtered == SelectSeq(all_tools, LAMBDA m : Selected(m, q, category, tag))
        filtered_tools == [i \in 1..Len(filtered) |-> Listed(filtered[i])]
    IN  Ok("search_tools",
           [query |-> [keyword |-> q, category |-> category, tag |-> tag],
            tools |-> filtered_tools, count |-> Len(filtered_tools)])

\* a direct call of the handler search_tools(q, category, tag)
SearchTools(q, category, tag) ==
    /\ response' = search_tools(_tools, q, category, tag)
    /\ UNCHANGED <<tool, initialized, calls, hookOk, hookFailed, registryVars, infos>>

\* a tool known by its name, description, category and tags
DescribedTool(name, description, category, tags) ==
    [cls |-> "DescribedTool", hook |-> "override",
     metadata |-> ToolMetadata(name, description, <<>>, category, tags)]

\* the tools searches are made on
SearchableTools ==
    {DescribedTool(name, "B", category, tags) :
        name \in {"a", "ab"}, category \in {"file", "web"}, tags \in {<<>>, <<"io">>}}

\* the values of the query parameters q, category and tag
Keywords == {NoneV, "", "a", "B", "a b"}

CategoryFilters == {NoneV, "", "file"}

TagFilters == {NoneV, "io"}

\* the handler list_tool_categories
list_tool_categories(tools) ==
    LET all == get_tools_metadata(tools)
        categories ==
            [c \in {all[i].category : i \in 1..Len(all)} |->
                LET of == SelectSeq(all, LAMBDA m : m.category = c)
                IN  [i \in 1..Len(of) |-> of[i].name]]
    IN  Ok("list_tool_categories",
           [categories |-> categories, category_count |-> Cardinality(DOMAIN categories)])

\* the handler get_tool_info; flag is the _initialized of the tool found
get_tool_info(tools, tool_name, flag) ==
    LET found == get_tool(tools, tool_name)
    IN  IF found = NoneTool THEN HTTPException("get_tool_info", 404, tool_name)
        ELSE Ok("get_tool_info",
                [metadata |-> metadata(Self(found[1], flag)),
                 schema |-> to_langchain_tool_schema(Self(found[1], flag))])

\* the values of a request body besides those of Values: the empty string
\* and the integer 0
FalsyValues == {"", "0"}

\* tools of one parameter whose default is one of these values
FalsyDefaultTools ==
    {GenericTool(<<shape>>) :
        shape \in [required : BOOLEAN, default : FalsyValues,
                   enum : {NoneList, SomeList(<<>>), SomeList(<<"w", "a">>)}]}

\* the JSON objects sent to execute_tool: each declared parameter omitted,
\* null, or one of the values, with or without a key that is not declared;
\* and an object with the key "self"
Bodies(t) ==
    LET names == {t.metadata.parameters[i].name : i \in 1..Len(t.metadata.parameters)}
        declared == UNION {[S -> Values \cup FalsyValues \cup {NoneV}] : S \in SUBSET names}
    IN  declared \cup {DictSet(kw, "extra", "w") : kw \in declared}
                 \cup {DictSet(EmptyDict, "self", "w")}

\* tool.safe_execute(**parameters): the call raises TypeError when a key is
\* the name of the method's own parameter
BindsKwargs(parameters) == "self" \notin DOMAIN parameters

\* POST /tools/{tool_name}/execute up to the await of safe_execute
ExecuteTool(c, tool_name, parameters) ==
    /\ calls[c].pc = "idle"
    /\ Dispatch("POST", <<"tools", tool_name, "execute">>) = "execute_tool"
    /\ IF get_tool(_tools, tool_name) = NoneTool
       THEN /\ response' = HTTPException("execute_tool", 404, tool_name)
            /\ UNCHANGED <<initialized, calls, hookOk, hookFailed>>
       ELSE IF ~BindsKwargs(parameters)
       THEN /\ response' = HTTPException("execute_tool", 500, "TypeError")
            /\ UNCHANGED <<initialized, calls, hookOk, hookFailed>>
       ELSE /\ get_tool(_tools, tool_name) = SomeTool(tool)
            /\ response' = NoResponse
            /\ EnterInitialize(c, [IdleCall EXCEPT !.op = "safe_execute",
                                                   !.kwargs = parameters])
    /\ UNCHANGED <<tool, registryVars, infos>>

\* safe_execute has returned to execute_tool, which sends its response
ExecuteToolRespond(c) ==
    /\ calls[c].op = "safe_execute"
    /\ calls[c].pc \in {"returned", "raised"}
    /\ response' =
          IF calls[c].pc = "raised"
          THEN HTTPException("execute_tool", 500, calls[c].excError.kind)
          ELSE Ok("execute_tool",
                  [tool_name |-> tool.metadata.name,
                   success |-> calls[c].ret.success,
                   result |-> calls[c].ret.result,
                   error |-> calls[c].ret.error,
                   execution_time |-> calls[c].ret.execution_time])
    /\ calls' = [calls EXCEPT ![c] = IdleCall]
    /\ UNCHANGED <<tool, initialized, hookOk, hookFailed, registryVars, infos>>

\* a GET request of a client that waits for each response
Get(path) ==
    /\ calls[1].pc = "idle"
    /\ LET handler == Dispatch("GET", path)
       IN  response' =
              CASE handler = "list_tool_categories" -> list_tool_categories(_tools)
                [] handler = "get_tool_info" ->
                      get_tool_info(_tools, path[2],
                                    initialized /\ path[2] = tool.metadata.name)
                [] handler = "search_tools" -> search_tools(_tools, NoneV, NoneV, NoneV)
                [] OTHER -> HTTPException(handler, 404, "Not Found")
    /\ UNCHANGED <<tool, initialized, calls, hookOk, hookFailed, registryVars, infos>>

\* the paths GET requests are made with
GetPaths ==
    {<<"tools", "categories">>, <<"tools", "search">>, <<"tools", "unknown">>,
     <<"tools", tool.metadata.name>>}

\* nothing has been looked up yet
NoLookup == [op |-> "None", arg |-> "", out |-> Returned(<<>>)]

\* app.mcp.base has been imported and nothing else: the registry is empty
InitRegistryVars ==
    /\ _tools = EmptyTools
    /\ _categories = EmptyDict
    /\ registered = <<>>
    /\ ret = NoLookup
    /\ pc = "main:13"
    /\ agent_tools = <<>>
    /\ registering = NoneTool

Calls == 1..NCalls

\* tools small enough to explore with concurrent callers
ConcTools == {t \in Tools : Len(t.metadata.parameters) = 1} \cup {FileReadTool}

InitWith(toolset) ==
    /\ tool \in toolset
    /\ initialized = FALSE
    /\ calls = [c \in Calls |-> IdleCall]
    /\ hookOk = 0
    /\ hookFailed = FALSE
    /\ InitRegistryVars
    /\ infos = {}
    /\ response = NoResponse

\* concurrent tasks calling one tool instance
Init == InitWith(ConcTools)

Next ==
    \E c \in Calls :
        \/ SafeExecute(c)
        \/ Initialize(c)
        \/ HookResume(c)
        \/ ExecuteReturn(c)
        \/ Return(c)

Spec == Init /\ [][Next]_vars

\* one task calling one tool instance, one call after the other
InitSeq == InitWith(Tools \cup EmptyEnumTools)

NextSeq ==
    \/ SafeExecute(1)
    \/ Initialize(1)
    \/ HookResume(1)
    \/ ExecuteReturn(1)
    \/ Return(1)

SpecSeq == InitSeq /\ [][NextSeq]_vars

\* tools whose parameter lists are short enough to explore with requests
InfoTools ==
    BuiltinTools \cup {t \in GenericTools : Len(t.metadata.parameters) <= 1}
                 \cup EmptyEnumTools \cup FalsyDefaultTools

\* one task calling one tool instance, and requests for the tool's description
InitInfo == InitWith(InfoTools)

NextInfo ==
    \/ SafeExecute(1)
    \/ Initialize(1)
    \/ HookResume(1)
    \/ ExecuteReturn(1)
    \/ Return(1)
    \/ GetToolInfo

SpecInfo == InitInfo /\ [][NextInfo]_vars

\* the application after start-up, with the tool registered (again, if it
\* is a built-in one) and one client sending one request after another
InitRoutes ==
    /\ tool \in InfoTools
    /\ initialized = FALSE
    /\ calls = [c \in Calls |-> IdleCall]
    /\ hookOk = 0
    /\ hookFailed = FALSE
    /\ LET r == RegisterFrom(EmptyTools, EmptyDict, 1)
           r2 == register(r.tools, r.categories, tool)
       IN  /\ _tools = r2.tools
           /\ _categories = r2.categories
    /\ registered = Append(tools_to_register, tool)
    /\ ret = NoLookup
    /\ pc = "serving"
    /\ agent_tools = <<>>
    /\ registering = NoneTool
    /\ infos = {}
    /\ response = NoResponse

NextRoutes ==
    \/ \E tool_name \in {tool.metadata.name, "unknown"} :
          \E parameters \in Bodies(tool) : ExecuteTool(1, tool_name, parameters)
    \/ HookResume(1)
    \/ ExecuteReturn(1)
    \/ ExecuteToolRespond(1)
    \/ \E path \in GetPaths : Get(path)

SpecRoutes == InitRoutes /\ [][NextRoutes]_vars

\* the registry of a process that imports app.main, with callers of its own
InitRegistry == InitWith({FileReadTool})

NextRegistry ==
    \/ \E t \in RegistryTools : Register(t)
    \/ \E name \in LookupNames : GetTool(name)
    \/ \E category \in LookupCategories : GetToolsByCategory(category)
    \/ ImportRouter
    \/ ImportTools

SpecRegistry == InitRegistry /\ [][NextRegistry]_vars

\* a registry that tools are registered in and searched
NextSearch ==
    \/ \E t \in SearchableTools : Register(t)
    \/ \E q \in Keywords, category \in CategoryFilters, tag \in TagFilters :
          SearchTools(q, category, tag)

SpecSearch == InitRegistry /\ [][NextSearch]_vars

\* the registry with register taken statement by statement, and lookups made
\* by other tasks of the event loop
NextRegisterSteps ==
    \/ \E t \in RegistryTools : RegisterStore(t)
    \/ RegisterIndex
    \/ \E name \in LookupNames : GetTool(name)
    \/ \E category \in LookupCategories : GetToolsByCategory(category)
    \/ ListAllTools

SpecRegisterSteps == InitRegistry /\ [][NextRegisterSteps]_vars

-----------------------------------------------------------------------------
(* Properties *)

\* the safe_execute calls that have returned an envelope
ReturnedCalls ==
    {c \in Calls : calls[c].op = "safe_execute" /\ calls[c].pc = "returned"}

\* safe_execute let an exception through to its caller
Escaped(c) == calls[c].pc = "raised"

\* C1, as claimed: safe_execute never raises, and an exception raised in
\* _initialize, validate_parameters or execute comes back as an envelope with
\* success=false, error = the exception's message, execution_time populated.
C1_AnyExceptionBecomesItsMessage ==
    \A c \in Calls :
        /\ ~Escaped(c)
        /\ (c \in ReturnedCalls /\ calls[c].excWhere # "none") =>
              calls[c].ret = ToolResult(FALSE, NoneV, calls[c].excError, Elapsed)

\* C1, amended: safe_execute never raises; an exception raised in
\* validate_parameters or execute comes back as an envelope with success=false,
\* error = the exception's message and execution_time populated; an exception
\* raised in _initialize is swallowed by initialize and comes back as a
\* failure envelope carrying the fixed initialization-failed message.
C1_ExceptionsBecomeEnvelopes ==
    \A c \in Calls :
        /\ ~Escaped(c)
        /\ (c \in ReturnedCalls /\ calls[c].excWhere \in {"validate_parameters", "execute"}) =>
              calls[c].ret = ToolResult(FALSE, NoneV, calls[c].excError, Elapsed)
        /\ (c \in ReturnedCalls /\ calls[c].excWhere = "_initialize") =>
              /\ calls[c].ret.success = FALSE
              /\ calls[c].ret.error = InitFailedError

\* a call on a generic tool came back from an exception raised by execute
C1_Witness ==
    \E c \in ReturnedCalls :
        /\ calls[c].excWhere = "execute"
        /\ calls[c].ret.error = ExecError
        /\ calls[c].ret.execution_time = Elapsed

\* C2: every envelope safe_execute returns has execution_time populated, on
\* every path (initialization failure, validation failure, execute raising,
\* execute returning a failure or a success envelope).
C2_ExecutionTimeAlwaysPopulated ==
    \A c \in ReturnedCalls : calls[c].ret.execution_time # NoneV

\* C3: with concurrent safe_execute calls on a tool that is not yet
\* initialized, the one-time setup _initialize runs to completion at most once.
C3_SetupRunsAtMostOnce == hookOk <= 1

\* C4: initialize is idempotent: a call that finds the flag set returns true
\* without running the setup hook, so over a sequential series of calls the
\* hook has succeeded exactly once whenever the flag is set (and never before).
C4_InitializeIdempotent ==
    /\ hookOk = (IF initialized THEN 1 ELSE 0)
    /\ \A c \in Calls :
          calls[c].flagRead = "True" =>
              /\ ~calls[c].ranHook
              /\ calls[c].initRet = "True"

\* a direct initialize call made after the flag was set has returned true
C4_Witness ==
    \E c \in Calls :
        /\ calls[c].op = "initialize"
        /\ calls[c].pc = "returned"
        /\ calls[c].flagRead = "True"
        /\ calls[c].initRet = "True"
        /\ hookOk = 1

\* C5: a failing setup hook makes initialize return false without raising and
\* leaves the flag false; the failure is not cached: every call that finds the
\* flag false runs the hook again, and when the hook then succeeds the flag is
\* true and a safe_execute call goes on to validation and, when that passes,
\* to execute.
C5_FailedSetupIsRetried ==
    \A c \in Calls :
        LET call == calls[c]
        IN  /\ ~Escaped(c)
            /\ (call.excWhere = "_initialize") =>
                  /\ call.initRet = "False"
                  /\ ~initialized
            /\ (call.flagRead = "False") => call.ranHook
            /\ (call.ranHook /\ call.pc # "in_hook" /\ call.excWhere # "_initialize") =>
                  /\ initialized
                  /\ call.initRet = "True"
                  /\ (call.op = "safe_execute") =>
                        /\ call.ranValidate
                        /\ (call.excWhere # "validate_parameters") => call.ranExecute

\* after a run of the hook has raised, a later call ran the hook again, it
\* succeeded and the call reached execute
C5_Witness ==
    /\ hookFailed
    /\ initialized
    /\ \E c \in Calls :
          /\ calls[c].op = "safe_execute"
          /\ calls[c].flagRead = "False"
          /\ calls[c].ranHook
          /\ calls[c].initRet = "True"
          /\ calls[c].ranExecute

\* C6: when initialize returns false, safe_execute returns a failure envelope
\* with the fixed initialization-failed message, and neither
\* validate_parameters nor execute is invoked for that call.
C6_InitFailureShortCircuits ==
    \A c \in ReturnedCalls :
        calls[c].initRet = "False" =>
            /\ calls[c].ret.success = FALSE
            /\ calls[c].ret.error = InitFailedError
            /\ ~calls[c].ranValidate
            /\ ~calls[c].ranExecute

\* a safe_execute call whose initialize returned false has returned
C6_Witness ==
    \E c \in ReturnedCalls :
        /\ calls[c].initRet = "False"
        /\ calls[c].ret.error = InitFailedError

\* C7: the initialized flag is monotone: under every interleaving of
\* initialize and safe_execute calls, once it is true it stays true.
C7_FlagMonotone == [][initialized => initialized']_vars

\* the flag is set while another caller is still inside a run of the hook,
\* which may yet raise
C7_Witness ==
    /\ initialized
    /\ \E c \in Calls : calls[c].pc = "in_hook"

-----------------------------------------------------------------------------
(* Validation properties.  The notions below are stated on the caller's    *)
(* arguments and the declared descriptors, not through validate_parameters. *)

\* the safe_execute calls that are past validation or have returned
SettledCalls ==
    {c \in Calls : calls[c].op = "safe_execute" /\ calls[c].pc \in {"in_execute", "returned"}}

Declared == tool.metadata.parameters

\* the argument was passed with a value other than None
Supplied(kwargs, name) == name \in DOMAIN kwargs /\ kwargs[name] # NoneV

\* the argument was not passed at all
Omitted(kwargs, name) == name \notin DOMAIN kwargs

HasEnum(param) == param.enum # <<>> /\ param.enum[1] # <<>>

Member(v, param) == \E k \in DOMAIN param.enum[1] : param.enum[1][k] = v

\* the supplied value, or the default when none is supplied
ResolvedOrDefault(param, kwargs) ==
    IF Supplied(kwargs, param.name) THEN kwargs[param.name] ELSE param.default

\* the supplied value, or the default when none is supplied and the parameter
\* is not required
ResolvedValue(param, kwargs) ==
    IF Supplied(kwargs, param.name) THEN kwargs[param.name]
    ELSE IF param.required THEN NoneV ELSE param.default

\* the parameter is missing though required, or its resolved value is outside its enum
ParamFails(param, kwargs) ==
    \/ param.required /\ ~Supplied(kwargs, param.name)
    \/ /\ HasEnum(param)
       /\ ResolvedValue(param, kwargs) # NoneV
       /\ ~Member(ResolvedValue(param, kwargs), param)

\* the error text has the parameter's name formatted into it
ErrorNames(error, name) == error.kind \in {"missing", "enum"} /\ error.param = name

\* C8, as claimed: a safe_execute call that omits a required parameter returns
\* a failure envelope whose error text contains that parameter's name, and
\* execute is not invoked.  (Stated for the calls whose initialize returned
\* true; the others return the initialization-failed message, which names no
\* parameter.)
C8_OmittedRequiredIsNamed ==
    \A c \in SettledCalls : \A i \in DOMAIN Declared :
        (/\ calls[c].initRet = "True"
         /\ Declared[i].required
         /\ Omitted(calls[c].kwargs, Declared[i].name)) =>
            /\ ~calls[c].ranExecute
            /\ calls[c].ret.success = FALSE
            /\ ErrorNames(calls[c].ret.error, Declared[i].name)

\* C8, amended: a safe_execute call that omits a required parameter returns a
\* failure envelope and execute is not invoked; when initialization succeeded
\* and no parameter declared earlier fails validation, the error text is the
\* missing-parameter message naming that parameter.
C8_OmittedRequiredFails ==
    \A c \in SettledCalls : \A i \in DOMAIN Declared :
        (Declared[i].required /\ Omitted(calls[c].kwargs, Declared[i].name)) =>
            /\ ~calls[c].ranExecute
            /\ calls[c].pc = "returned"
            /\ calls[c].ret.success = FALSE
            /\ (/\ calls[c].initRet = "True"
                /\ \A j \in 1..(i - 1) : ~ParamFails(Declared[j], calls[c].kwargs)) =>
                  calls[c].ret.error = MissingError(Declared[i].name)

\* a call that passed its first parameter and omitted its required second one
\* came back with the message naming the second
C8_Witness ==
    \E c \in ReturnedCalls :
        /\ Len(Declared) >= 2
        /\ Supplied(calls[c].kwargs, Declared[1].name)
        /\ Declared[2].required
        /\ Omitted(calls[c].kwargs, Declared[2].name)
        /\ calls[c].ret.error = MissingError(Declared[2].name)
        /\ ~calls[c].ranExecute

\* the enum part of C9, for a given notion of the resolved value: a non-member
\* makes the call fail without execute; a member is not rejected and is passed
\* to execute unchanged
EnumRespected(c, param, r) ==
    /\ (r # NoneV /\ ~Member(r, param)) =>
          /\ ~calls[c].ranExecute
          /\ calls[c].pc = "returned"
          /\ calls[c].ret.success = FALSE
    /\ (r # NoneV /\ Member(r, param)) =>
          /\ ~(calls[c].excWhere = "validate_parameters"
               /\ ErrorNames(calls[c].excError, param.name))
          /\ calls[c].ranExecute =>
                /\ param.name \in DOMAIN calls[c].validated
                /\ calls[c].validated[param.name] = r

\* C9, as claimed: for a parameter with a non-empty enum the resolved value
\* (the supplied value, or the default when none is supplied) must be a
\* member: a non-member makes validation fail and safe_execute return a
\* failure envelope without invoking execute; a member passes and appears
\* unchanged in the validated mapping.
C9_EnumOnSuppliedOrDefault ==
    \A c \in SettledCalls : \A i \in DOMAIN Declared :
        HasEnum(Declared[i]) =>
            EnumRespected(c, Declared[i], ResolvedOrDefault(Declared[i], calls[c].kwargs))

\* C9, amended: the same with the resolved value being the supplied value, or
\* the default when none is supplied and the parameter is not required (a
\* required parameter that is not supplied fails as missing whatever its
\* default).
C9_EnumOnResolvedValue ==
    \A c \in SettledCalls : \A i \in DOMAIN Declared :
        HasEnum(Declared[i]) =>
            EnumRespected(c, Declared[i], ResolvedValue(Declared[i], calls[c].kwargs))

\* a call that did not supply an enum parameter reached execute with the
\* parameter's default, a member of the enum, in the validated mapping
C9_Witness ==
    \E c \in SettledCalls : \E i \in DOMAIN Declared :
        /\ HasEnum(Declared[i])
        /\ ~Supplied(calls[c].kwargs, Declared[i].name)
        /\ calls[c].ranExecute
        /\ calls[c].validated[Declared[i].name] = Declared[i].default
        /\ Member(Declared[i].default, Declared[i])

\* the mapping C10 describes: the declared parameters that have a
\* resolved value, each with that value
ExpectedValidated(kwargs) ==
    LET keep == {i \in DOMAIN Declared :
                    \/ Supplied(kwargs, Declared[i].name)
                    \/ ~Declared[i].required /\ Declared[i].default # NoneV}
        at(n) == CHOOSE i \in keep : Declared[i].name = n
    IN  [n \in {Declared[i].name : i \in keep} |->
            IF Supplied(kwargs, n) THEN kwargs[n] ELSE Declared[at(n)].default]

\* C10: when validate_parameters succeeds its output maps each declared
\* parameter to the supplied value if one was supplied (None counts as not
\* supplied), otherwise to the default if the parameter is not required and
\* has one; a non-required parameter with neither is absent from the output.
C10_ValidatedIsResolvedMapping ==
    \A c \in SettledCalls :
        calls[c].ranExecute =>
            /\ calls[c].validated = ExpectedValidated(calls[c].kwargs)
            /\ \A i \in DOMAIN Declared :
                  (/\ ~Declared[i].required
                   /\ ~Supplied(calls[c].kwargs, Declared[i].name)
                   /\ Declared[i].default = NoneV) =>
                      Declared[i].name \notin DOMAIN calls[c].validated

\* validation passed with one parameter's default substituted and another,
\* optional one without default left out
C10_Witness ==
    \E c \in SettledCalls : \E i, j \in DOMAIN Declared :
        /\ calls[c].ranExecute
        /\ ~Supplied(calls[c].kwargs, Declared[i].name)
        /\ Declared[i].default # NoneV
        /\ calls[c].validated[Declared[i].name] = Declared[i].default
        /\ ~Declared[j].required
        /\ Declared[j].default = NoneV
        /\ ~Supplied(calls[c].kwargs, Declared[j].name)
        /\ Declared[j].name \notin DOMAIN calls[c].validated

-----------------------------------------------------------------------------
(* The registry *)

\* the instance most recently passed to register under a name, if any
LastRegistered(name) ==
    LET at == {i \in 1..Len(registered) : registered[i].metadata.name = name}
    IN  IF at = {} THEN NoneTool
        ELSE SomeTool(registered[CHOOSE i \in at : \A j \in at : j <= i])

\* C11: after any sequence of register calls, get_tool(name) returns the
\* instance most recently registered under that name, whatever was registered
\* under other names before or after it.
C11_LastWriteWins ==
    \A name \in LookupNames : get_tool(_tools, name) = LastRegistered(name)

\* a name was registered with two different instances, another name between them
C11_Witness ==
    \E i, j, k \in 1..Len(registered) :
        /\ i < k /\ k < j
        /\ registered[i].metadata.name = registered[j].metadata.name
        /\ registered[i] # registered[j]
        /\ registered[k].metadata.name # registered[i].metadata.name
        /\ get_tool(_tools, registered[j].metadata.name) = SomeTool(registered[j])
        /\ get_tool(_tools, registered[k].metadata.name) = SomeTool(registered[k])

\* C12: every tool get_tools_by_category(c) returns has category c, so that a
\* name registered again under another category has left its old category.
C12_ListedToolsHaveTheCategory ==
    \A c \in LookupCategories :
        LET out == get_tools_by_category(_tools, _categories, c)
        IN  /\ out.raised = "None"
            /\ \A i \in 1..Len(out.value) : out.value[i].metadata.category = c

\* C13: no category's list holds a name twice, and every listed name is a key
\* of _tools, so that get_tools_by_category never raises KeyError.
C13_NoDuplicateNoDangling ==
    \A c \in DOMAIN _categories :
        /\ \A i, j \in 1..Len(_categories[c]) :
              _categories[c][i] = _categories[c][j] => i = j
        /\ \A i \in 1..Len(_categories[c]) : _categories[c][i] \in DOMAIN _tools.vals
        /\ get_tools_by_category(_tools, _categories, c).raised = "None"

\* a name was registered twice under one category, which lists two names
C13_Witness ==
    \E i, j \in 1..Len(registered) :
        /\ i < j
        /\ registered[i].metadata.name = registered[j].metadata.name
        /\ registered[i].metadata.category = registered[j].metadata.category
        /\ Len(_categories[registered[i].metadata.category]) >= 2

\* the names registered under a category from the i-th call on, each once,
\* in the order of their first registration under it
RECURSIVE FirstRegisteredFrom(_, _, _)
FirstRegisteredFrom(category, i, seen) ==
    IF i > Len(registered) THEN <<>>
    ELSE LET t == registered[i]
         IN  IF t.metadata.category = category /\ t.metadata.name \notin seen
             THEN <<t.metadata.name>> \o
                  FirstRegisteredFrom(category, i + 1, seen \cup {t.metadata.name})
             ELSE FirstRegisteredFrom(category, i + 1, seen)

\* C14: get_tools_by_category(c) returns its tools in the order in which their
\* names were first registered under c; registering a listed name again
\* leaves its position as it was.
C14_FirstRegistrationOrder ==
    \A c \in LookupCategories :
        LET out == get_tools_by_category(_tools, _categories, c)
        IN  /\ out.raised = "None"
            /\ [i \in 1..Len(out.value) |-> out.value[i].metadata.name]
                  = FirstRegisteredFrom(c, 1, {})

\* the first name of a category was registered under it again after the second
C14_Witness ==
    \E c \in DOMAIN _categories : \E i, j \in 1..Len(registered) :
        /\ Len(_categories[c]) >= 2
        /\ i < j
        /\ registered[i].metadata.category = c
        /\ registered[i].metadata.name = _categories[c][2]
        /\ registered[j].metadata.category = c
        /\ registered[j].metadata.name = _categories[c][1]

\* C15: a lookup of an unknown key returns a value and changes nothing:
\* get_tool of an unregistered name returns None, get_tools_by_category of
\* an unknown category returns the empty list and does not add the category.
C15_UnknownLookupsAreValues ==
    [][ret' # ret =>
          /\ _tools' = _tools
          /\ _categories' = _categories
          /\ (ret'.op = "get_tool" /\ ret'.arg \notin DOMAIN _tools.vals
                => ret'.out = Returned(NoneTool))
          /\ (ret'.op = "get_tools_by_category" /\ ret'.arg \notin DOMAIN _categories
                => ret'.out = Returned(<<>>))]_vars

\* an unknown name was looked up in a registry that holds tools
C15_Witness ==
    /\ ret.op = "get_tool"
    /\ ret.arg \notin DOMAIN _tools.vals
    /\ ret.out = Returned(NoneTool)
    /\ Len(_tools.keys) > 0
    /\ DOMAIN _categories # {}

-----------------------------------------------------------------------------
(* The envelope *)

\* C16: every envelope safe_execute returns has error absent when success is
\* true and error present when success is false.
C16_EnvelopeInvariant ==
    \A c \in ReturnedCalls :
        /\ calls[c].ret.success => calls[c].ret.error = NoError
        /\ ~calls[c].ret.success => calls[c].ret.error # NoError

\* one call has returned the envelope of a failed initialization while
\* another has returned a success envelope
C16_Witness ==
    \E c, d \in ReturnedCalls :
        /\ calls[c].ret.success
        /\ ~calls[d].ret.success
        /\ calls[d].initRet = "False"

-----------------------------------------------------------------------------
(* The exported schema and the metadata *)

\* the place of a name in a list of names
IndexOf(names, n) == CHOOSE i \in 1..Len(names) : names[i] = n

\* C17: the exported schema has exactly one property per declared parameter,
\* keyed by the parameter's name and carrying its type and description, and
\* its required list holds exactly the names of the parameters with
\* required=true, in the order of their declaration.
C17_SchemaMatchesParameters ==
    \A info \in infos :
        LET params == tool.metadata.parameters
            names == [i \in 1..Len(params) |-> params[i].name]
            props == info.schema.parameters.properties
            req == info.schema.parameters.required
        IN  /\ DOMAIN props = {names[i] : i \in 1..Len(names)}
            /\ Cardinality(DOMAIN props) = Len(params)
            /\ \A i \in 1..Len(params) :
                  /\ props[names[i]]["type"] = params[i].type
                  /\ props[names[i]]["description"] = params[i].description
            /\ {req[k] : k \in 1..Len(req)}
                  = {params[i].name : i \in {j \in 1..Len(params) : params[j].required}}
            /\ \A k, l \in 1..Len(req) :
                  k < l => IndexOf(names, req[k]) < IndexOf(names, req[l])

\* the schema of a tool with required and optional parameters was exported
C17_Witness ==
    \E info \in infos :
        /\ Len(tool.metadata.parameters) >= 3
        /\ Len(info.schema.parameters.required) >= 2
        /\ Len(info.schema.parameters.required) < Len(tool.metadata.parameters)

\* C18: to_langchain_tool_schema returns the same schema for a tool that is
\* not initialized, is initialized, or has failed to initialize, and a call
\* of it neither runs _initialize nor changes the flag.
C18_SchemaIndependentOfInitialization ==
    /\ [](\A a, b \in infos : a.schema = b.schema)
    /\ [][infos' # infos => UNCHANGED <<initialized, hookOk, hookFailed>>]_vars

\* the schema was exported before any initialization, after a failed one and
\* after a successful one
C18_Witness ==
    /\ \E a \in infos : ~a.flag /\ ~a.failed
    /\ \E a \in infos : ~a.flag /\ a.failed
    /\ \E a \in infos : a.flag

\* C19: the metadata of a tool is the same on every read, before and after
\* initialize and before and after safe_execute.
C19_MetadataStable ==
    /\ [](\A a, b \in infos : a.metadata = b.metadata)
    /\ [][metadata(Self(tool', initialized')) = metadata(Self(tool, initialized))]_vars

\* the metadata was read before the tool was initialized, and again after a
\* safe_execute call that initialized it has returned
C19_Witness ==
    /\ \E a \in infos : ~a.flag
    /\ \E a \in infos : a.flag
    /\ calls[1].op = "safe_execute" /\ calls[1].pc = "returned"
    /\ calls[1].ret.success

-----------------------------------------------------------------------------
(* Start-up *)

\* C20: when app.main has been imported, the built-in tools were registered
\* before the service built its tool list, so that the list holds a wrapper
\* for each of their names.
C20_AgentToolsCoverBuiltins ==
    pc = "serving" =>
        \A i \in 1..Len(tools_to_register) :
            InList(tools_to_register[i].metadata.name, agent_tools)

-----------------------------------------------------------------------------
(* The call of execute *)

\* C21: in every interleaving of calls on one tool, the execute step of a
\* safe_execute call begins only after that call's initialize returned true,
\* with the flag set, and after its validate_parameters succeeded; execute is
\* called at most once per call, with exactly the validated mapping.
C21_ExecuteAfterInitAndValidation ==
    \A c \in Calls :
        /\ calls[c].executes <= 1
        /\ calls[c].op = "initialize" => calls[c].executes = 0
        /\ calls[c].executes = 1 =>
              /\ calls[c].initRet = "True"
              /\ initialized
              /\ calls[c].ranValidate
              /\ validate_parameters(tool, calls[c].kwargs).ok
              /\ calls[c].executeArgs = validate_parameters(tool, calls[c].kwargs).validated

\* two calls are in execute at once, one of them with a default filled in
C21_Witness ==
    \E c, d \in Calls :
        /\ c # d
        /\ calls[c].pc = "in_execute" /\ calls[d].pc = "in_execute"
        /\ calls[c].executeArgs # calls[c].kwargs
        /\ DOMAIN calls[c].executeArgs # {}

-----------------------------------------------------------------------------
(* register and concurrent lookups *)

\* every registered name is listed under the category of its tool
IndexesConsistent ==
    \A name \in DOMAIN _tools.vals :
        InList(name, CategoryNames(_categories, _tools.vals[name].metadata.category))

\* C22: no lookup that runs concurrently with registrations observes a name
\* that is in the name index and missing from its category's list.
C22_LookupsSeeBothUpdates ==
    [][ret' # ret => IndexesConsistent]_vars

\* a register call is between its two updates, after an earlier lookup
C22_Witness ==
    /\ registering # NoneTool
    /\ ~IndexesConsistent
    /\ ret.op # "None"

-----------------------------------------------------------------------------
(* validate_parameters: order of the checks *)

\* what the check of one declared parameter alone reports for the arguments
ParamFailure(param, kwargs) ==
    LET value == DictGet(kwargs, param.name)
    IN  IF MissingRequired(param, value) THEN MissingError(param.name)
        ELSE IF /\ ResolveValue(param, value) # NoneV
                /\ EnumViolated(param, ResolveValue(param, value))
        THEN EnumError(param.name)
        ELSE NoError

\* the positions of the declared parameters whose own check fails
Failing(t, kwargs) ==
    {i \in 1..Len(t.metadata.parameters) :
        ParamFailure(t.metadata.parameters[i], kwargs) # NoError}

\* C23: when several declared parameters are invalid, the error of the call
\* is the one of the earliest invalid parameter in the declared list, and
\* execute is not called.
C23_EarliestFailureReported ==
    \A c \in Calls :
        (calls[c].ranValidate /\ Failing(tool, calls[c].kwargs) # {}) =>
            LET failing == Failing(tool, calls[c].kwargs)
                first == CHOOSE i \in failing : \A j \in failing : i <= j
            IN  /\ calls[c].pc = "returned"
                /\ calls[c].executes = 0
                /\ ~calls[c].ret.success
                /\ calls[c].ret.error =
                      ParamFailure(tool.metadata.parameters[first], calls[c].kwargs)

\* file_write called without content and with a mode outside the enum:
\* the error names content, the earlier of the two
C23_Witness ==
    \E c \in Calls :
        /\ tool = FileWriteTool
        /\ calls[c].pc = "returned"
        /\ Failing(tool, calls[c].kwargs) = {2, 4}
        /\ calls[c].ret.error = MissingError("content")

-----------------------------------------------------------------------------
(* to_langchain_tool_schema: the optional entries of a property *)

\* C24: in the exported schema the property of a parameter has an enum entry
\* exactly when the descriptor's enum is a non-empty list, and a default
\* entry exactly when the descriptor's default is not None, a falsy default
\* (0, the empty string) included; the entries carry the descriptor's values.
C24_OptionalSchemaEntries ==
    \A info \in infos :
        \A i \in 1..Len(tool.metadata.parameters) :
            LET param == tool.metadata.parameters[i]
                prop == info.schema.parameters.properties[param.name]
            IN  /\ "enum" \in DOMAIN prop <=>
                      (param.enum # NoneList /\ param.enum[1] # <<>>)
                /\ "default" \in DOMAIN prop <=> param.default # NoneV
                /\ "enum" \in DOMAIN prop => prop["enum"] = param.enum[1]
                /\ "default" \in DOMAIN prop => prop["default"] = param.default

\* a schema was exported for a parameter with an empty enum list and the
\* default 0: it has a default entry and no enum entry
C24_Witness ==
    \E info \in infos :
        /\ Len(tool.metadata.parameters) = 1
        /\ tool.metadata.parameters[1].default = "0"
        /\ tool.metadata.parameters[1].enum = SomeList(<<>>)
        /\ DOMAIN info.schema.parameters.properties["p1"]
              = {"type", "description", "default"}

-----------------------------------------------------------------------------
(* Routing of the GET requests below /tools *)

\* C26: a GET request to /tools/search is answered by search_tools, not by
\* get_tool_info with tool_name = "search", and a GET request to
\* /tools/categories is answered by list_tool_categories.
C26_SearchReachesSearchHandler ==
    [][/\ Get(<<"tools", "search">>) => response'.handler = "search_tools"
       /\ Get(<<"tools", "categories">>) => response'.handler = "list_tool_categories"]_vars

-----------------------------------------------------------------------------
(* search_tools *)

\* a tool satisfies every filter that is supplied (not None and not empty):
\* its category is the one asked for, the tag is one of its tags, and the
\* keyword is, letter case aside, a substring of its name or of its description
SatisfiesFilters(m, q, category, tag) ==
    /\ StrTruthy(category) => m.category = category
    /\ StrTruthy(tag) => InList(tag, m.tags)
    /\ StrTruthy(q) => \/ Contains(Lower(Chars(q)), Lower(Chars(m.name)))
                      \/ Contains(Lower(Chars(q)), Lower(Chars(m.description)))

\* the registered tools that satisfy the filters, in registry order
Matching(tools, q, category, tag) ==
    LET sel == SelectSeq(get_tools_metadata(tools),
                         LAMBDA m : SatisfiesFilters(m, q, category, tag))
    IN  [i \in 1..Len(sel) |-> Listed(sel[i])]

\* C25: a search returns exactly the registered tools that satisfy every
\* supplied filter at once (category equal, tag among the tags, keyword a
\* case-insensitive substring of name or description), in registry order.
C25_SearchReturnsTheMatches ==
    [][\A q \in Keywords, category \in CategoryFilters, tag \in TagFilters :
          SearchTools(q, category, tag) =>
              /\ response'.status = 200
              /\ response'.body.tools = Matching(_tools, q, category, tag)
              /\ response'.body.count = Len(response'.body.tools)]_vars

-----------------------------------------------------------------------------
(* POST /tools/{tool_name}/execute *)

\* C27: a request for a name absent from the registry is answered 404 and
\* runs no initialization and no execute; a request for a registered name
\* calls safe_execute, and whatever fails in the tool (its _initialize, the
\* validation, its execute) comes back in a 200 response with success false
\* and the error, never as a server error.
C27_ExecuteRoute ==
    [][/\ \A tool_name \in {tool.metadata.name, "unknown"} :
             (/\ ExecuteTool(1, tool_name, EmptyDict)
              /\ get_tool(_tools, tool_name) = NoneTool) =>
                 /\ response'.status = 404
                 /\ UNCHANGED <<initialized, calls, hookOk, hookFailed>>
       /\ (response'.handler = "execute_tool" /\ response'.status # 200) =>
             /\ UNCHANGED <<initialized, calls, hookOk, hookFailed>>
             /\ calls[1].pc = "idle"
             /\ response'.status = 404 => get_tool(_tools, response'.body) = NoneTool
             /\ response'.status = 500 => response'.body = "TypeError"
       /\ (calls[1].pc = "idle" /\ calls'[1].pc # "idle") =>
             /\ get_tool(_tools, tool.metadata.name) = SomeTool(tool)
             /\ calls'[1].op = "safe_execute"
       /\ ExecuteToolRespond(1) =>
             /\ response'.status = 200
             /\ response'.body.success = calls[1].ret.success
             /\ response'.body.error = calls[1].ret.error
             /\ (\/ calls[1].excWhere # "none"
                 \/ calls[1].initRet = "False"
                 \/ calls[1].ret.error # NoError) =>
                   /\ ~response'.body.success
                   /\ response'.body.error # NoError]_vars

\* the tool's execute raised and the route answered 200 with the failure
C27_Witness ==
    /\ response.handler = "execute_tool"
    /\ response.status = 200
    /\ ~response.body.success
    /\ response.body.error = ExecError

-----------------------------------------------------------------------------
(* validate_parameters: arguments that are not declared *)

\* the names of the declared parameters of a tool
DeclaredNames(t) ==
    {t.metadata.parameters[i].name : i \in 1..Len(t.metadata.parameters)}

\* the arguments of a call without those whose name is not declared
DeclaredOnly(t, kwargs) ==
    [k \in DOMAIN kwargs \cap DeclaredNames(t) |-> kwargs[k]]

\* C28: the mapping passed to execute has only names of declared parameters,
\* and an argument whose name is not declared changes nothing: the call
\* succeeds or fails as it would without it, with the same mapping or error.
C28_UndeclaredArgumentsDropped ==
    \A c \in Calls :
        calls[c].ranValidate =>
            LET v == validate_parameters(tool, DeclaredOnly(tool, calls[c].kwargs))
            IN  /\ DOMAIN calls[c].executeArgs \subseteq DeclaredNames(tool)
                /\ v.ok => /\ calls[c].executes = 1
                           /\ calls[c].executeArgs = v.validated
                /\ ~v.ok => /\ calls[c].executes = 0
                            /\ calls[c].ret.error = v.error

\* a call with an undeclared argument is in execute with a non-empty mapping
C28_Witness ==
    \E c \in Calls :
        /\ "extra" \in DOMAIN calls[c].kwargs
        /\ calls[c].pc = "in_execute"
        /\ calls[c].executeArgs # EmptyDict
        /\ "extra" \notin DOMAIN calls[c].executeArgs

-----------------------------------------------------------------------------
(* validate_parameters: null and falsy arguments *)

\* the arguments of a call without those passed as None
WithoutNulls(kwargs) ==
    [k \in {n \in DOMAIN kwargs : kwargs[n] # NoneV} |-> kwargs[k]]

\* C29: an argument passed as None is treated exactly like an omitted one
\* (the call ends as the call without it: same mapping for execute, or same
\* error), while a falsy value that is not None (0, the empty string) is
\* kept as the resolved value and never replaced by the default.
C29_NullIsOmittedFalsyIsKept ==
    \A c \in Calls :
        calls[c].ranValidate =>
            LET v == validate_parameters(tool, WithoutNulls(calls[c].kwargs))
            IN  /\ v.ok => /\ calls[c].executes = 1
                           /\ calls[c].executeArgs = v.validated
                /\ ~v.ok => /\ calls[c].executes = 0
                            /\ calls[c].ret.error = v.error
                /\ calls[c].executes = 1 =>
                      \A n \in DOMAIN calls[c].kwargs \cap DeclaredNames(tool) :
                          calls[c].kwargs[n] \in FalsyValues =>
                              /\ n \in DOMAIN calls[c].executeArgs
                              /\ calls[c].executeArgs[n] = calls[c].kwargs[n]

\* file_write called with the empty string as encoding and None as mode:
\* execute gets the empty string and the default mode
C29_Witness ==
    \E c \in Calls :
        /\ tool = FileWriteTool
        /\ calls[c].pc = "in_execute"
        /\ DictGet(calls[c].kwargs, "encoding") = ""
        /\ "mode" \in DOMAIN calls[c].kwargs
        /\ calls[c].kwargs["mode"] = NoneV
        /\ calls[c].executeArgs["encoding"] = ""
        /\ calls[c].executeArgs["mode"] = "w"

-----------------------------------------------------------------------------
(* validate_parameters: a required parameter that has a default *)

\* C30: a parameter declared required that also has a default still fails
\* as missing when no value is supplied (the error names it unless an
\* earlier parameter fails first), and what execute receives for a required
\* parameter is always the caller's value, never the default.
C30_RequiredIgnoresDefault ==
    \A c \in Calls :
        calls[c].ranValidate =>
            \A i \in 1..Len(tool.metadata.parameters) :
                LET param == tool.metadata.parameters[i]
                    value == DictGet(calls[c].kwargs, param.name)
                IN  (param.required /\ param.default # NoneV) =>
                        /\ value = NoneV =>
                              /\ calls[c].executes = 0
                              /\ ~calls[c].ret.success
                              /\ (\A j \in Failing(tool, calls[c].kwargs) : i <= j) =>
                                    calls[c].ret.error = MissingError(param.name)
                        /\ calls[c].executes = 1 =>
                              calls[c].executeArgs[param.name] = value

\* safe_execute returned the missing-parameter error for the second
\* parameter, which is required and has a default, after the first
\* parameter got its default
C30_Witness ==
    \E c \in Calls :
        /\ Len(tool.metadata.parameters) = 2
        /\ ~tool.metadata.parameters[1].required
        /\ tool.metadata.parameters[1].default # NoneV
        /\ tool.metadata.parameters[2].required
        /\ tool.metadata.parameters[2].default # NoneV
        /\ calls[c].pc = "returned"
        /\ calls[c].kwargs = EmptyDict
        /\ calls[c].ret.error = MissingError("p2")

=============================================================================
